---- MODULE Spec2Model ----
(***************************************************************************)
(* Funding-curve pipeline.                                                 *)
(*                                                                         *)
(* builders/curve.py: FundingCurveBuilder accumulates FundingPrints per    *)
(* exchange in a deque of length 8 and returns an 8-row snapshot when the  *)
(* curve is complete (Spec, SpecGaps, SpecRates).                          *)
(* funding_collectors.py: backfill_realised pages through a venue's        *)
(* funding history (SpecBackfill); stream_predicted is the venue's live    *)
(* subscription with its reconnect loop.                                   *)
(* pipelines/ingest.py: the historical replay, one task per venue walking  *)
(* [start, end) in chunks (SpecIngest).                                    *)
(* pipelines/snapshot.py: the live loop, which seeds the builder from a    *)
(* backfill and then consumes the two streams (SpecLive).                  *)
(* tests/smoke_*.py: one stream_predicted generator and its consumer, with *)
(* what an observer of the socket has seen (SpecSmoke).                    *)
(*                                                                         *)
(* Coroutines run on one event loop: an action is the code one task runs   *)
(* from the completion of an await to its next await.                      *)
(*                                                                         *)
(* Times (funding_time, ts_snap) are integers: the index of the 8-hour     *)
(* funding window (milliseconds in SpecBackfill and SpecIngest).  A rate   *)
(* is a record [tag, v]: tag "None" (missing), "NaN", "Inf" (v = +1 or -1) *)
(* or "Fin" (v = the rate in basis points, 1 bp = 0.0001).                 *)
(***************************************************************************)
EXTENDS Integers, Sequences, FiniteSets, TLC

\* ------------------------------------------------------------------ bounds
\* Funding windows an event may name: 1..MaxTime.
MaxTime == 10
\* The first event fed to an empty buffer names a window in 1..MaxStart
\* (specifications Spec and SpecRates).
MaxStart == 2
\* At most MaxOther held events carry a rate other than the ordinary one
\* (specification SpecRates).
MaxOther == 1

\* ------------------------------------------------------------------ values
Venues == {"binance", "bybit"}
Times == 1..MaxTime

NoneRate == [tag |-> "None", v |-> 0]
NaNRate == [tag |-> "NaN", v |-> 0]
PosInf == [tag |-> "Inf", v |-> 1]
NegInf == [tag |-> "Inf", v |-> -1]
Fin(bp) == [tag |-> "Fin", v |-> bp]

\* 0.0001, the ordinary rate; None and NaN, which the gap guard drops
BaseRates == {NoneRate, NaNRate, Fin(1)}
\* 0.0002; 1.0 (finite, but (1 + 1.0) ** 1095.0 is out of the range of a
\* float); +inf and -inf
OtherRates == {Fin(2), Fin(10000), PosInf, NegInf}
Rates == BaseRates \cup OtherRates

\* FundingPrint (symbol is never read by the builder and is left out).
FundingPrint(x, ts, r, ft) ==
    [exchange |-> x, ts_snap |-> ts, predicted_rate |-> r, funding_time |-> ft]

\* class attribute BUCKETS_H = list(range(0, 64, 8))
BUCKETS_H == [i \in 1..8 |-> (i - 1) * 8]
B == Len(BUCKETS_H)

VARIABLES
    emit_on_roll,   \* FundingCurveBuilder.emit_on_roll
    buffers,        \* FundingCurveBuilder._buffers: exchange -> deque(maxlen=8)
    last_roll,      \* FundingCurveBuilder._last_roll: exchange -> funding_time
    call,           \* the last call made on the builder and what it returned
    accepted,       \* history: the prints appended per exchange since its last reset
    emitted,        \* history: newest funding_time of each snapshot returned per
                    \* exchange since its last reset
    pg,             \* one call of ExchangeCollector.backfill_realised
    hist,           \* pipelines/ingest.py: main and its two _ingest_exchange tasks
    ws,             \* exchange -> its stream_predicted generator
    live            \* pipelines/snapshot.py: main, its seeding and its two _pipe tasks

\* the builder
bvars == <<emit_on_roll, buffers, last_roll, call, accepted, emitted>>
\* the collectors and the pipelines around it
pvars == <<pg, hist, ws, live>>
vars == <<emit_on_roll, buffers, last_roll, call, accepted, emitted, pg, hist, ws, live>>

\* a component that does not run in the specification at hand
Off == [pc |-> "off"]

Min(a, b) == IF a < b THEN a ELSE b
LastN(q, n) == SubSeq(q, Len(q) - n + 1, Len(q))

\* ------------------------------------------------------------- dict helpers
\* dict.get(k) / defaultdict lookup without insertion
Has(d, k) == k \in DOMAIN d
\* d[k] = x
Put(d, k, x) == [j \in DOMAIN d \cup {k} |-> IF j = k THEN x ELSE d[j]]
\* d.pop(k, None)
Pop(d, k) == [j \in DOMAIN d \ {k} |-> d[j]]
\* d.clear() / {}
EmptyDict == [j \in {} |-> 0]

\* self._buffers[exchange]: the defaultdict creates an empty deque for a new key
BufOf(d, k) == IF Has(d, k) THEN d[k] ELSE <<>>

\* mutant: a deque without maxlen, nothing is ever dropped
DequeAppend_unbounded(q, x, n) == Append(q, x)

\* deque(maxlen=n).append(x): the oldest item is dropped when the deque is full
DequeAppend(q, x, n) ==
    IF Len(q) >= n THEN Append(Tail(q), x) ELSE Append(q, x)

\* ------------------------------------------------------------ return values
RetNone == [kind |-> "None", rows |-> <<>>]
RetFrame(rows) == [kind |-> "DataFrame", rows |-> rows]
RetRaise == [kind |-> "OverflowError", rows |-> <<>>]

\* pd.isna(x): True for None and NaN, False for +-inf and finite floats
pd_isna(r) == r.tag \in {"None", "NaN"}

\* mutant: only a missing rate is dropped, NaN passes
GapGuard_none_only(fp) == fp.predicted_rate.tag = "None"

\* the gap guard's condition
GapGuard(fp) == fp.predicted_rate.tag = "None" \/ pd_isna(fp.predicted_rate)

\* mutant: a duplicate funding_time passes the guard ("<" for "<=")
OrderGuard_strict(buf, fp) ==
    Len(buf) > 0 /\ fp.funding_time < buf[Len(buf)].funding_time

\* mutant: only a duplicate is dropped, a regression passes ("==" for "<=")
OrderGuard_eq(buf, fp) ==
    Len(buf) > 0 /\ fp.funding_time = buf[Len(buf)].funding_time

\* the ordering guard's condition
OrderGuard(buf, fp) ==
    Len(buf) > 0 /\ fp.funding_time <= buf[Len(buf)].funding_time

\* (1 + r) ** (24 * 365 / 8): float ** float raises OverflowError when the
\* result is out of range, i.e. when |1 + r| >= 1.9122 (exponent 1095.0);
\* inf ** 1095.0 is inf and (-inf) ** 1095.0 is -inf, without an error.
Overflows(r) ==
    /\ r.tag = "Fin"
    /\ (10000 + r.v >= 19122 \/ 10000 + r.v <= -19122)

\* the annualised rate, kept symbolic: the base of the power in basis points
annualised(r) ==
    IF r.tag = "Inf" THEN r ELSE [tag |-> "Pow1095", v |-> 10000 + r.v]

\* mutant: the buckets are numbered from 1 (enumerate(buf, 1))
Row_from_one(idx, item) ==
    [exchange |-> item.exchange,
     ts_snap |-> item.ts_snap,
     bucket_start_h |-> (idx + 1) * 8,
     bucket_end_h |-> (idx + 2) * 8,
     fwd_rate_ann |-> annualised(item.predicted_rate),
     raw_rate |-> item.predicted_rate,
     funding_time |-> item.funding_time]

\* one row of the snapshot, idx 0-based as in enumerate(buf)
Row(idx, item) ==
    [exchange |-> item.exchange,
     ts_snap |-> item.ts_snap,
     bucket_start_h |-> idx * 8,
     bucket_end_h |-> (idx + 1) * 8,
     fwd_rate_ann |-> annualised(item.predicted_rate),
     raw_rate |-> item.predicted_rate,
     funding_time |-> item.funding_time]

\* mutant: every row is built from the print just appended
Rows_newest(buf) == [i \in 1..Len(buf) |-> Row(i - 1, buf[Len(buf)])]

\* rows = [...] for idx, item in enumerate(buf)
Rows(buf) == [i \in 1..Len(buf) |-> Row(i - 1, buf[i])]

\* building the rows raises at the first item whose power overflows
BuildSnapshot(buf) ==
    IF \E i \in 1..Len(buf) : Overflows(buf[i].predicted_rate)
    THEN RetRaise
    ELSE RetFrame(Rows(buf))

\* the throttle's condition: same window as the last emission
Throttled(fp) ==
    /\ emit_on_roll
    /\ Has(last_roll, fp.exchange)
    /\ fp.funding_time = last_roll[fp.exchange]

\* mutant: the completeness check is off by one
Incomplete_early(buf) == Len(buf) < B - 1

\* the completeness check's condition: fewer than 8 buckets held
Incomplete(buf) == Len(buf) < B

\* ------------------------------------------------------------------ actions
NoPrint == FundingPrint("", 0, NoneRate, 0)

\* FundingCurveBuilder.__init__(emit_on_roll=...)
Init ==
    /\ emit_on_roll \in BOOLEAN
    /\ buffers = EmptyDict
    /\ last_roll = EmptyDict
    /\ call = [op |-> "init", exchange |-> "", fp |-> NoPrint, ret |-> RetNone,
               dropped |-> <<>>]
    /\ accepted = [x \in Venues |-> <<>>]
    /\ emitted = [x \in Venues |-> <<>>]
    /\ pg = Off /\ hist = Off /\ ws = Off /\ live = Off

\* the record of a call of update: its argument, what it returned and the
\* prints it removed from the buffer
Called(fp, ret, dropped) ==
    [op |-> "update", exchange |-> fp.exchange, fp |-> fp, ret |-> ret,
     dropped |-> dropped]

\* the prints deque.append pushed out of a deque of maxlen n
Evicted(q, n) == IF Len(q) >= n THEN <<Head(q)>> ELSE <<>>

\* FundingCurveBuilder.update(fp)
update(fp) ==
    LET x == fp.exchange
        buf == BufOf(buffers, x)
        nbuf == DequeAppend(buf, fp, B)
        out == Evicted(buf, B)
    IN  IF GapGuard(fp)
        THEN /\ call' = Called(fp, RetNone, <<>>)
             /\ UNCHANGED <<emit_on_roll, buffers, last_roll, accepted, emitted>>
        ELSE IF OrderGuard(buf, fp)
        THEN /\ call' = Called(fp, RetNone, <<>>)
             /\ UNCHANGED <<emit_on_roll, buffers, last_roll, accepted, emitted>>
        ELSE /\ buffers' = Put(buffers, x, nbuf)
             /\ accepted' = [accepted EXCEPT ![x] = Append(@, fp)]
             /\ IF Incomplete(nbuf)
                THEN /\ call' = Called(fp, RetNone, out)
                     /\ UNCHANGED <<last_roll, emitted>>
                ELSE IF Throttled(fp)
                THEN /\ call' = Called(fp, RetNone, out)
                     /\ UNCHANGED <<last_roll, emitted>>
                ELSE /\ last_roll' = IF emit_on_roll
                                     THEN Put(last_roll, x, fp.funding_time)
                                     ELSE last_roll
                     /\ call' = Called(fp, BuildSnapshot(nbuf), out)
                     /\ emitted' = IF BuildSnapshot(nbuf).kind = "DataFrame"
                                   THEN [emitted EXCEPT ![x] = Append(@, fp.funding_time)]
                                   ELSE emitted
             /\ UNCHANGED emit_on_roll

\* mutant: reset(exchange) clears every venue, as reset() does
reset_clears_all(x) ==
    /\ buffers' = EmptyDict
    /\ last_roll' = EmptyDict
    /\ call' = [op |-> "reset", exchange |-> x, fp |-> NoPrint, ret |-> RetNone,
                dropped |-> BufOf(buffers, x)]
    /\ accepted' = [accepted EXCEPT ![x] = <<>>]
    /\ emitted' = [emitted EXCEPT ![x] = <<>>]
    /\ UNCHANGED emit_on_roll

\* mutant: reset(exchange) clears the throttle bookkeeping but keeps the buffer
reset_keeps_buffer(x) ==
    /\ last_roll' = Pop(last_roll, x)
    /\ call' = [op |-> "reset", exchange |-> x, fp |-> NoPrint, ret |-> RetNone,
                dropped |-> <<>>]
    /\ accepted' = [accepted EXCEPT ![x] = <<>>]
    /\ emitted' = [emitted EXCEPT ![x] = <<>>]
    /\ UNCHANGED <<emit_on_roll, buffers>>

\* FundingCurveBuilder.reset(exchange)
reset(x) ==
    /\ buffers' = Pop(buffers, x)
    /\ last_roll' = Pop(last_roll, x)
    /\ call' = [op |-> "reset", exchange |-> x, fp |-> NoPrint, ret |-> RetNone,
                dropped |-> BufOf(buffers, x)]
    /\ accepted' = [accepted EXCEPT ![x] = <<>>]
    /\ emitted' = [emitted EXCEPT ![x] = <<>>]
    /\ UNCHANGED emit_on_roll

\* FundingCurveBuilder.reset() / reset(None)
reset_all ==
    /\ buffers' = EmptyDict
    /\ last_roll' = EmptyDict
    /\ call' = [op |-> "reset", exchange |-> "", fp |-> NoPrint, ret |-> RetNone,
                dropped |-> BufOf(buffers, "binance") \o BufOf(buffers, "bybit")]
    /\ accepted' = [x \in Venues |-> <<>>]
    /\ emitted' = [x \in Venues |-> <<>>]
    /\ UNCHANGED emit_on_roll

\* ------------------------------------------- one venue of a builder, alone
\* What a builder holds for one venue: its deque, its entry of _last_roll
\* (rolled: whether there is one) and what the last call returned.
Alone == [buf |-> <<>>, rolled |-> FALSE, roll |-> 0, ret |-> RetNone]

\* FundingCurveBuilder(emit_on_roll=emit).update(fp) on the state st of
\* fp.exchange
UpdateAlone(st, fp, emit) ==
    LET nbuf == DequeAppend(st.buf, fp, B)
    IN  IF GapGuard(fp) THEN [st EXCEPT !.ret = RetNone]
        ELSE IF OrderGuard(st.buf, fp) THEN [st EXCEPT !.ret = RetNone]
        ELSE IF Incomplete(nbuf) THEN [st EXCEPT !.buf = nbuf, !.ret = RetNone]
        ELSE IF emit /\ st.rolled /\ fp.funding_time = st.roll
        THEN [st EXCEPT !.buf = nbuf, !.ret = RetNone]
        ELSE [buf |-> nbuf,
              rolled |-> emit \/ st.rolled,
              roll |-> IF emit THEN fp.funding_time ELSE st.roll,
              ret |-> BuildSnapshot(nbuf)]

\* the prints of q fed one after the other to a builder that holds nothing
RECURSIVE FedAlone(_, _)
FedAlone(q, emit) ==
    IF q = <<>> THEN Alone
    ELSE UpdateAlone(FedAlone(SubSeq(q, 1, Len(q) - 1), emit), q[Len(q)], emit)

\* --------------------------------------------------------------- the feed
Newest(x) == BufOf(buffers, x)[Len(BufOf(buffers, x))].funding_time

\* A realised print: ts_snap is the funding time itself (backfill_realised).
Realised(x, ft, r) == FundingPrint(x, ft, r, ft)

\* Spec: both venues; each venue's stream names consecutive funding windows
\* and replays any earlier one; ordinary, missing and NaN rates.
Feed ==
    {fp \in {Realised(x, ft, r) : x \in Venues, ft \in Times, r \in BaseRates} :
        IF Has(buffers, fp.exchange)
        THEN fp.funding_time <= Newest(fp.exchange) + 1
        ELSE fp.funding_time <= MaxStart}

\* SpecGaps: one venue; any window at any time (gaps of any width,
\* duplicates, regressions); ordinary, missing and NaN rates.
FeedGaps == {Realised("binance", ft, r) : ft \in Times, r \in BaseRates}

\* number of held events of x whose rate is not the ordinary one
OtherHeld(x) ==
    Cardinality({i \in 1..Len(BufOf(buffers, x)) :
                    BufOf(buffers, x)[i].predicted_rate \in OtherRates})

\* SpecRates: one venue; the stream repeats the newest window, steps one back
\* or advances to the next; every kind of rate.
FeedRates ==
    {fp \in {Realised("bybit", ft, r) : ft \in Times, r \in Rates} :
        /\ IF Has(buffers, fp.exchange)
           THEN /\ fp.funding_time <= Newest(fp.exchange) + 1
                /\ fp.funding_time >= Newest(fp.exchange) - 1
           ELSE fp.funding_time <= MaxStart
        /\ fp.predicted_rate \in OtherRates => OtherHeld(fp.exchange) < MaxOther}

Update == (\E fp \in Feed : update(fp)) /\ UNCHANGED pvars
UpdateGaps == (\E fp \in FeedGaps : update(fp)) /\ UNCHANGED pvars
UpdateRates == (\E fp \in FeedRates : update(fp)) /\ UNCHANGED pvars
Reset == (\E x \in Venues : reset(x)) /\ UNCHANGED pvars
ResetAll == reset_all /\ UNCHANGED pvars

Next == Update \/ Reset \/ ResetAll
NextGaps == UpdateGaps \/ Reset \/ ResetAll
NextRates == UpdateRates \/ Reset \/ ResetAll

Spec == Init /\ [][Next]_vars
SpecGaps == Init /\ [][NextGaps]_vars
SpecRates == Init /\ [][NextRates]_vars

\* ------------------------------------------- backfill_realised (pagination)
\* Times of the REST endpoints are milliseconds: 1..MaxMs.
MaxMs == 5
\* The page size of a request ("limit": 1000 at Binance, 200 at Bybit).
PageLimit == 2

Ms == 1..MaxMs

\* the elements of a set of times, oldest first / newest first
RECURSIVE Ascending(_)
Ascending(S) ==
    IF S = {} THEN <<>>
    ELSE LET m == CHOOSE t \in S : \A u \in S : t <= u
         IN  <<m>> \o Ascending(S \ {m})

RECURSIVE Descending(_)
Descending(S) ==
    IF S = {} THEN <<>>
    ELSE LET m == CHOOSE t \in S : \A u \in S : t >= u
         IN  <<m>> \o Descending(S \ {m})

Take(q, n) == SubSeq(q, 1, Min(n, Len(q)))

\* the records of a venue whose funding time lies in [s, e]
InWindow(records, s, e) == {t \in records : s <= t /\ t <= e}

\* mutant: Bybit answers oldest first, as Binance does
BybitServe_ascending(records, s, e) == Take(Ascending(InWindow(records, s, e)), PageLimit)

\* GET /fapi/v1/fundingRate: the oldest `limit` records of the window, ascending
BinanceServe(records, s, e) == Take(Ascending(InWindow(records, s, e)), PageLimit)
\* GET /v5/market/funding/history: the newest `limit` records of the window,
\* descending
BybitServe(records, s, e) == Take(Descending(InWindow(records, s, e)), PageLimit)

\* what a request comes back with: a page of records; an exception of the
\* HTTP client (connection refused, timeout, body that is not JSON); or the
\* venue's JSON error object, which carries no record list
Responses == {"page", "client_error", "error_body"}

\* the FundingPrints appended for one page
PrintsOf(x, page) == [i \in 1..Len(page) |-> Realised(x, page[i], Fin(1))]

\* backfill_realised(start, end) up to its first request
Backfill(x, records, start, end) ==
    [pc |-> "request", exchange |-> x, records |-> records,
     start |-> start, end |-> end,
     startTime |-> start, endTime |-> end,
     prints |-> <<>>, windows |-> <<>>, failed |-> FALSE, error |-> ""]

\* mutant: the window is cut one millisecond above the last row
BybitAdvance_stuck(last_ts) == last_ts + 1

\* params["startTime"] = data[-1]["fundingTime"] + 1
BinanceAdvance(last) == last + 1
\* params["endTime"] = last_ts - 1
BybitAdvance(last_ts) == last_ts - 1

\* BinanceCollector.backfill_realised: one pass of `while True`
BinancePass(p, resp) ==
    LET data == BinanceServe(p.records, p.startTime, p.endTime)
        asked == [p EXCEPT !.windows = Append(@, <<p.startTime, p.endTime>>)]
    IN  CASE resp = "client_error" ->
                [asked EXCEPT !.pc = "raised", !.failed = TRUE, !.error = "ClientError"]
          [] resp = "error_body" ->
                \* data is a dict: `for item in data` walks its keys, and
                \* item["fundingTime"] on a str raises
                [asked EXCEPT !.pc = "raised", !.failed = TRUE, !.error = "TypeError"]
          [] OTHER ->
                IF data = <<>>
                THEN [asked EXCEPT !.pc = "returned"]
                ELSE LET got == [asked EXCEPT !.prints = @ \o PrintsOf("binance", data)]
                     IN  IF Len(data) < PageLimit \/ data[Len(data)] >= p.endTime
                         THEN [got EXCEPT !.pc = "returned"]
                         ELSE [got EXCEPT !.startTime = BinanceAdvance(data[Len(data)])]

\* BybitCollector.backfill_realised: one pass of `while True`
BybitPass(p, resp) ==
    LET rows == BybitServe(p.records, p.startTime, p.endTime)
        asked == [p EXCEPT !.windows = Append(@, <<p.startTime, p.endTime>>)]
    IN  CASE resp = "client_error" ->
                [asked EXCEPT !.pc = "raised", !.failed = TRUE, !.error = "ClientError"]
          [] resp = "error_body" ->
                \* payload.get("result", {}).get("list", []) is []: break
                [asked EXCEPT !.pc = "returned", !.failed = TRUE]
          [] OTHER ->
                IF rows = <<>>
                THEN [asked EXCEPT !.pc = "returned"]
                ELSE LET got == [asked EXCEPT !.prints = @ \o PrintsOf("bybit", rows)]
                         last_ts == rows[Len(rows)]
                     IN  IF last_ts <= p.startTime \/ Len(rows) < PageLimit
                         THEN [got EXCEPT !.pc = "returned"]
                         ELSE [got EXCEPT !.endTime = BybitAdvance(last_ts)]

InitBackfill ==
    /\ emit_on_roll = TRUE
    /\ buffers = EmptyDict
    /\ last_roll = EmptyDict
    /\ call = [op |-> "init", exchange |-> "", fp |-> NoPrint, ret |-> RetNone,
               dropped |-> <<>>]
    /\ accepted = [x \in Venues |-> <<>>]
    /\ emitted = [x \in Venues |-> <<>>]
    /\ \E x \in Venues, records \in SUBSET Ms, start \in Ms, end \in Ms :
          /\ start < end
          /\ pg = Backfill(x, records, start, end)
    /\ hist = Off /\ ws = Off /\ live = Off

BackfillBinance ==
    /\ pg.pc = "request" /\ pg.exchange = "binance"
    /\ \E resp \in Responses : pg' = BinancePass(pg, resp)
    /\ UNCHANGED <<bvars, hist, ws, live>>

BackfillBybit ==
    /\ pg.pc = "request" /\ pg.exchange = "bybit"
    /\ \E resp \in Responses : pg' = BybitPass(pg, resp)
    /\ UNCHANGED <<bvars, hist, ws, live>>

NextBackfill == BackfillBinance \/ BackfillBybit

SpecBackfill == InitBackfill /\ [][NextBackfill]_vars
\* a request always comes back: with a body, or with an error of the client
\* when its timeout runs out
SpecBackfillFair == SpecBackfill /\ WF_vars(NextBackfill)

\* ------------------------------------------ pipelines/ingest.py (historical)
\* timedelta(hours=CHUNK_HOURS - 1), the span of a chunk, in milliseconds
ChunkSpan == 2

\* sorted(prints, key=lambda p: p.funding_time): a stable sort
InsertByTime(q, fp) ==
    LET n == Cardinality({i \in 1..Len(q) : q[i].funding_time <= fp.funding_time})
    IN  SubSeq(q, 1, n) \o <<fp>> \o SubSeq(q, n + 1, Len(q))

\* mutant: the prints of a chunk are fed in the order the venue returned them
SortedByTime_unsorted(q) == q

RECURSIVE SortedByTime(_)
SortedByTime(q) ==
    IF q = <<>> THEN <<>>
    ELSE InsertByTime(SortedByTime(SubSeq(q, 1, Len(q) - 1)), q[Len(q)])

\* one pass of the loop of the venue's backfill_realised
Pass(p, resp) == IF p.exchange = "binance" THEN BinancePass(p, resp) ELSE BybitPass(p, resp)

\* await collector.backfill_realised(...): the call run to its end, its first
\* request answered by resp and every later one by a page
RECURSIVE Awaited(_, _)
Awaited(p, resp) == IF p.pc # "request" THEN p ELSE Awaited(Pass(p, resp), "page")

\* what the venues hold: a record every millisecond, or every second one
Holdings == {Times, {t \in Times : t % 2 = 0}}

\* chunk_end = min(cursor + timedelta(hours=CHUNK_HOURS - 1), end)
ChunkEnd(cursor, end) == Min(cursor + ChunkSpan, end)

\* mutant: the next chunk starts at the end of the last one
NextCursor_overlap(chunk_end) == chunk_end

\* cursor = chunk_end + timedelta(milliseconds=1)
NextCursor(chunk_end) == chunk_end + 1

\* _ingest_exchange(name, collector_cls, start, end, builder) when created
IngestTask(start, end) ==
    [pc |-> IF start < end THEN "fetch" ELSE "done",
     cursor |-> start, chunk_end |-> start, pending |-> <<>>,
     chunks |-> <<>>, fed |-> <<>>]

\* the end of a chunk: move the cursor and test `while cursor < end`
Advance(t, end) ==
    [t EXCEPT !.cursor = NextCursor(t.chunk_end),
              !.pc = IF NextCursor(t.chunk_end) < end THEN "fetch" ELSE "done"]

\* ingest.main(start_date) up to its gather
InitIngest ==
    /\ emit_on_roll = TRUE
    /\ buffers = EmptyDict
    /\ last_roll = EmptyDict
    /\ call = [op |-> "init", exchange |-> "", fp |-> NoPrint, ret |-> RetNone,
               dropped |-> <<>>]
    /\ accepted = [x \in Venues |-> <<>>]
    /\ emitted = [x \in Venues |-> <<>>]
    /\ \E start \in 1..MaxStart, end \in Times, records \in [Venues -> Holdings] :
          hist = [pc |-> "gather", start |-> start, end |-> end, records |-> records,
                  task |-> [x \in Venues |-> IngestTask(start, end)],
                  sink |-> <<>>]
    /\ pg = Off /\ ws = Off /\ live = Off

\* no task is between two awaits: the event loop may resume any of them
Idle(h) == \A x \in Venues : h.task[x].pc # "feeding"

\* _historical_stream: `prints = await collector.backfill_realised(cursor, chunk_end)`
FetchChunk(x) ==
    LET t == hist.task[x]
        chunk_end == ChunkEnd(t.cursor, hist.end)
    IN  /\ t.pc = "fetch" /\ Idle(hist)
        /\ \E resp \in Responses :
              LET r == Awaited(Backfill(x, hist.records[x], t.cursor, chunk_end), resp)
                  asked == [t EXCEPT !.chunk_end = chunk_end,
                                     !.chunks = Append(@, [cursor |-> t.cursor,
                                                           chunk_end |-> chunk_end,
                                                           failed |-> r.failed,
                                                           raised |-> r.pc = "raised"])]
              IN  hist' =
                    IF r.pc = "raised"
                    THEN \* the exception leaves the generator, the task and gather
                         [hist EXCEPT !.task[x] = [asked EXCEPT !.pc = "raised"],
                                      !.pc = IF @ = "gather" THEN "raised" ELSE @]
                    ELSE IF r.prints = <<>>
                    THEN [hist EXCEPT !.task[x] = Advance(asked, hist.end)]
                    ELSE [hist EXCEPT !.task[x] =
                            [asked EXCEPT !.pc = "feeding",
                                          !.pending = SortedByTime(r.prints)]]
        /\ UNCHANGED <<bvars, pg, ws, live>>

\* _ingest_exchange: one round of `async for fp in _historical_stream(...)`,
\* which runs without an await between two prints of a chunk
IngestPrint(x) ==
    LET t == hist.task[x]
        fp == Head(t.pending)
        fed == [t EXCEPT !.pending = Tail(@), !.fed = Append(@, fp)]
    IN  /\ t.pc = "feeding"
        /\ update(fp)
        /\ hist' =
              IF call'.ret.kind = "OverflowError"
              THEN [hist EXCEPT !.task[x] = [fed EXCEPT !.pc = "raised"],
                                !.pc = IF @ = "gather" THEN "raised" ELSE @]
              ELSE LET h == IF call'.ret.kind = "DataFrame"
                            THEN [hist EXCEPT !.sink = Append(@, call'.ret)]
                            ELSE hist
                   IN  [h EXCEPT !.task[x] = IF fed.pending = <<>>
                                             THEN Advance(fed, hist.end)
                                             ELSE fed]
        /\ UNCHANGED <<pg, ws, live>>

\* asyncio.run: main has raised, the tasks still pending are cancelled
CancelIngest ==
    /\ hist.pc = "raised" /\ Idle(hist)
    /\ \E x \in Venues : hist.task[x].pc = "fetch"
    /\ hist' = [hist EXCEPT !.task = [x \in Venues |->
                    IF hist.task[x].pc = "fetch"
                    THEN [hist.task[x] EXCEPT !.pc = "cancelled"]
                    ELSE hist.task[x]]]
    /\ UNCHANGED <<bvars, pg, ws, live>>

\* main: gather returns once both tasks are done
IngestComplete ==
    /\ hist.pc = "gather"
    /\ \A x \in Venues : hist.task[x].pc = "done"
    /\ hist' = [hist EXCEPT !.pc = "complete"]
    /\ UNCHANGED <<bvars, pg, ws, live>>

Fetch == \E x \in Venues : FetchChunk(x)
Ingest == \E x \in Venues : IngestPrint(x)

NextIngest == Fetch \/ Ingest \/ CancelIngest \/ IngestComplete

SpecIngest == InitIngest /\ [][NextIngest]_vars

\* ----------------------------------------------------- stream_predicted
\* the values _reconnect() yields: `yield retry` once, then `return`
Reconnect == <<0>>

\* stream_predicted() before its first step and when (re)connecting;
\* latest_rate and latest_ftime are the cache of the Bybit generator
Stream(pc) ==
    [pc |-> pc, attempt |-> 0, latest_rate |-> NoneRate, latest_ftime |-> 0,
     error |-> ""]

\* mutant: no except clause catches anything
Caught_nothing(x, err) == FALSE

\* the except clauses: `except Exception` (Binance) and `except
\* (aiohttp.ClientError, asyncio.TimeoutError, websockets.ConnectionClosed)`
\* (Bybit)
Caught(x, err) ==
    IF x = "binance" THEN TRUE
    ELSE err \in {"ClientError", "TimeoutError", "ConnectionClosed"}

\* the failures of the transport: what ws_connect and the receive loop raise
TransportErrors == {"ClientError", "TimeoutError"}
\* what json.loads, float, int and a missing key raise on a malformed message
ProtocolErrors == {"ValueError", "KeyError"}

\* an exception raised inside the try block of the generator of venue x
Raise(x, s, err) ==
    IF Caught(x, err)
    THEN \* logged, then `await asyncio.sleep(...)`
         [s EXCEPT !.pc = "sleep"]
    ELSE \* leaves the generator
         [s EXCEPT !.pc = "raised", !.error = err]

\* the next round of the connection loop: `async for retry in _reconnect()`
\* (Binance) and `while True` (Bybit)
Again(x, s) ==
    IF x = "binance"
    THEN IF s.attempt < Len(Reconnect)
         THEN [s EXCEPT !.pc = "connect", !.attempt = @ + 1]
         ELSE [s EXCEPT !.pc = "ended"]
    ELSE [s EXCEPT !.pc = "connect"]

\* mutant: the cache outlives the connection
Connected_keeps_cache(x, s) == [s EXCEPT !.pc = "open"]

\* ws_connect (and, at Bybit, the subscription and the reset of the cache)
Connected(x, s) ==
    [s EXCEPT !.pc = "open", !.latest_rate = NoneRate, !.latest_ftime = 0]

\* the funding windows a live message may name: those not yet settled
Upcoming(now) == {k \in Times : 8 * k >= now}

\* the window `now` falls in: ts_snap of a live print
SnapTime(now) == now \div 8

\* WebSocket messages.  kind "other": not TEXT (ping, binary); "foreign": a
\* TEXT message of another topic (Bybit); "bad": a TEXT message that does not
\* parse; "data": a ticker, rate NoneRate / ftime 0 when the key is absent
\* (Bybit sends deltas; Binance always sends both)
Message(kind, rate, ftime) == [kind |-> kind, rate |-> rate, ftime |-> ftime]

MessagesOf(x, now, rates) ==
    {Message("other", NoneRate, 0), Message("bad", NoneRate, 0)}
    \cup {Message("data", r, T) : r \in rates, T \in Upcoming(now)}
    \cup IF x = "binance" THEN {}
         ELSE {Message("foreign", NoneRate, 0), Message("data", NoneRate, 0)}
              \cup {Message("data", r, 0) : r \in rates}
              \cup {Message("data", NoneRate, T) : T \in Upcoming(now)}

Messages(x, now) == MessagesOf(x, now, {Fin(1)})

\* mutant: the cache is written once and never replaced
OnMessage_first(x, s, m, now) ==
    IF m.kind \in {"other", "foreign"}
    THEN [stream |-> s, fp |-> NoPrint]
    ELSE IF m.kind = "bad"
    THEN [stream |-> Raise(x, s, "ValueError"), fp |-> NoPrint]
    ELSE IF x = "binance"
    THEN [stream |-> s, fp |-> FundingPrint(x, SnapTime(now), m.rate, m.ftime)]
    ELSE LET rate == IF s.latest_rate # NoneRate THEN s.latest_rate ELSE m.rate
             ftime == IF s.latest_ftime # 0 THEN s.latest_ftime ELSE m.ftime
             c == [s EXCEPT !.latest_rate = rate, !.latest_ftime = ftime]
         IN  IF rate # NoneRate /\ ftime # 0
             THEN [stream |-> c, fp |-> FundingPrint(x, SnapTime(now), rate, ftime)]
             ELSE [stream |-> c, fp |-> NoPrint]

\* the body of `async for msg in ws` up to the yield or to the next receive:
\* the generator's new state and the print it yields (NoPrint when none)
OnMessage(x, s, m, now) ==
    IF m.kind \in {"other", "foreign"}
    THEN [stream |-> s, fp |-> NoPrint]
    ELSE IF m.kind = "bad"
    THEN [stream |-> Raise(x, s, "ValueError"), fp |-> NoPrint]
    ELSE IF x = "binance"
    THEN [stream |-> s, fp |-> FundingPrint(x, SnapTime(now), m.rate, m.ftime)]
    ELSE LET rate == IF m.rate # NoneRate THEN m.rate ELSE s.latest_rate
             ftime == IF m.ftime # 0 THEN m.ftime ELSE s.latest_ftime
             c == [s EXCEPT !.latest_rate = rate, !.latest_ftime = ftime]
         IN  IF rate # NoneRate /\ ftime # 0
             THEN [stream |-> c, fp |-> FundingPrint(x, SnapTime(now), rate, ftime)]
             ELSE [stream |-> c, fp |-> NoPrint]

\* ---------------------------------------------- pipelines/snapshot.py (live)
\* timedelta(hours=64 + 1): how far back _seed_builder asks
SEED_HOURS == 65
\* sorted(prints, ...)[-7:]: how many prints _seed_builder keeps
SEED_KEEP == 7

\* q[-n:]
Last(q, n) == LastN(q, Min(n, Len(q)))

\* now_utc in hours; funding window k settles at hour 8 * k
Nows == {8 * (MaxTime - 1), 8 * (MaxTime - 1) + 1}

\* the windows settled in [now - 65 h, now - 1 s]: the first and the last
SeedStart(now) == (now - SEED_HOURS + 7) \div 8
SeedEnd(now) == (now - 1) \div 8

\* what a venue holds at `now`: every settled window, or every second one
Settled(now) ==
    {{k \in Times : 8 * k < now}, {k \in Times : 8 * k < now /\ k % 2 = 0}}

\* _seed_builder(builder, collector, now_utc) when created
SeedTask ==
    [pc |-> "fetch", pending |-> <<>>, snapshot |-> RetNone, fed |-> <<>>,
     failed |-> FALSE, got |-> 0]

\* snapshot.main() up to its first gather
InitLive ==
    /\ emit_on_roll = TRUE
    /\ buffers = EmptyDict
    /\ last_roll = EmptyDict
    /\ call = [op |-> "init", exchange |-> "", fp |-> NoPrint, ret |-> RetNone,
               dropped |-> <<>>]
    /\ accepted = [x \in Venues |-> <<>>]
    /\ emitted = [x \in Venues |-> <<>>]
    /\ \E now \in Nows : \E records \in [Venues -> Settled(now)] :
          live = [pc |-> "seeding", now |-> now, records |-> records,
                  seed |-> [x \in Venues |-> SeedTask],
                  pipe |-> [x \in Venues |-> "idle"],
                  sink |-> <<>>, error |-> [from |-> "", err |-> ""]]
    /\ ws = [x \in Venues |-> Stream("idle")]
    /\ pg = Off /\ hist = Off

\* no coroutine is between two awaits
LiveIdle == \A x \in Venues : live.seed[x].pc # "feeding"

\* an exception leaves a task of a gather: main raises with the first one
Escaped(l, from, err) ==
    [l EXCEPT !.pc = "raised",
              !.error = IF l.pc = "raised" THEN @ ELSE [from |-> from, err |-> err]]

\* _seed_builder: `prints = await collector.backfill_realised(start, end)` and
\* the slice
SeedFetch(x) ==
    LET t == live.seed[x]
    IN  /\ t.pc = "fetch" /\ LiveIdle
        /\ \E resp \in Responses :
              LET r == Awaited(Backfill(x, live.records[x], SeedStart(live.now),
                                        SeedEnd(live.now)), resp)
                  prints == Last(SortedByTime(r.prints), SEED_KEEP)
                  asked == [t EXCEPT !.failed = r.failed, !.got = Len(r.prints)]
              IN  live' =
                    IF r.pc = "raised"
                    THEN Escaped([live EXCEPT !.seed[x] = [asked EXCEPT !.pc = "raised"]],
                                 "backfill_realised", r.error)
                    ELSE IF prints = <<>>
                    THEN [live EXCEPT !.seed[x] = [asked EXCEPT !.pc = "done"]]
                    ELSE [live EXCEPT !.seed[x] =
                            [asked EXCEPT !.pc = "feeding", !.pending = prints]]
        /\ UNCHANGED <<bvars, pg, hist, ws>>

\* _seed_builder: one round of `for fp in prints: snapshot = builder.update(fp)`
SeedFeed(x) ==
    LET t == live.seed[x]
        fp == Head(t.pending)
        fed == [t EXCEPT !.pending = Tail(@), !.fed = Append(@, fp)]
    IN  /\ t.pc = "feeding"
        /\ update(fp)
        /\ live' =
              IF call'.ret.kind = "OverflowError"
              THEN Escaped([live EXCEPT !.seed[x] = [fed EXCEPT !.pc = "raised"]],
                           "update", "OverflowError")
              ELSE [live EXCEPT !.seed[x] =
                      [fed EXCEPT !.snapshot = call'.ret,
                                  !.pc = IF fed.pending = <<>> THEN "done" ELSE "feeding"]]
        /\ UNCHANGED <<pg, hist, ws>>

\* mutant: the first gather returns as soon as one _seed_builder is done
SeedsDone_any(l) == \E x \in Venues : l.seed[x].pc = "done"

\* `seed_snaps = await asyncio.gather(...)` has returned
SeedsDone(l) == \A x \in Venues : l.seed[x].pc = "done"

\* what _append_parquet writes for a snapshot: its rows, of which the sink
\* keeps the venue and the funding_time of each
Written(frame) ==
    [i \in 1..Len(frame.rows) |-> <<frame.rows[i].exchange, frame.rows[i].funding_time>>]

\* seed_frames: the snapshots of the two _seed_builder that are not None,
\* Binance first
SeedFrames(l) ==
    SelectSeq(<<l.seed["binance"].snapshot, l.seed["bybit"].snapshot>>,
              LAMBDA f : f.kind = "DataFrame")

\* pd.concat(seed_frames, ignore_index=True)
Concat(frames) ==
    IF Len(frames) = 1 THEN frames[1]
    ELSE RetFrame(frames[1].rows \o frames[2].rows)

\* main: from the return of the first gather to the start of the two _pipe
\* tasks, each up to the ws_connect of its stream
StartStreams ==
    /\ live.pc = "seeding" /\ SeedsDone(live) /\ LiveIdle
    /\ live' = [live EXCEPT !.pc = "streams",
                            !.sink = IF SeedFrames(live) = <<>> THEN @
                                     ELSE Append(@, [by |-> "seed",
                                                     rows |-> Written(Concat(SeedFrames(live)))]),
                            !.pipe = [x \in Venues |-> "consuming"]]
    /\ ws' = [x \in Venues |-> Again(x, Stream("idle"))]
    /\ UNCHANGED <<bvars, pg, hist>>

\* the generator of venue x is running and its consumer waits for it
Streaming(x) == live.pipe[x] = "consuming" /\ LiveIdle

\* the generator has stopped: _pipe's `async for` ends or the exception goes
\* on into gather and main
Settle(l, x, s) ==
    IF s.pc = "ended" THEN [l EXCEPT !.pipe[x] = "returned"]
    ELSE IF s.pc = "raised"
    THEN Escaped([l EXCEPT !.pipe[x] = "raised"], "stream_predicted", s.error)
    ELSE l

\* ws_connect comes back
Connect(x) ==
    /\ Streaming(x) /\ ws[x].pc = "connect"
    /\ \E err \in {"none"} \cup TransportErrors :
          LET s == IF err = "none" THEN Connected(x, ws[x]) ELSE Raise(x, ws[x], err)
          IN  /\ ws' = [ws EXCEPT ![x] = s]
              /\ live' = Settle(live, x, s)
    /\ UNCHANGED <<bvars, pg, hist>>

\* a message arrives; a print the generator yields goes through _pipe
Receive(x) ==
    /\ Streaming(x) /\ ws[x].pc = "open"
    /\ \E m \in Messages(x, live.now) :
          LET o == OnMessage(x, ws[x], m, live.now)
          IN  /\ ws' = [ws EXCEPT ![x] = o.stream]
              /\ IF o.fp = NoPrint
                 THEN /\ live' = Settle(live, x, o.stream)
                      /\ UNCHANGED bvars
                 ELSE /\ update(o.fp)
                      /\ live' =
                            IF call'.ret.kind = "OverflowError"
                            THEN Escaped([live EXCEPT !.pipe[x] = "raised"],
                                         "update", "OverflowError")
                            ELSE IF call'.ret.kind = "DataFrame"
                            THEN [live EXCEPT !.sink =
                                    Append(@, [by |-> x, rows |-> Written(call'.ret)])]
                            ELSE live
    /\ UNCHANGED <<pg, hist>>

\* the connection is lost: the receive loop raises, or the socket closes and
\* the loop ends
Drop(x) ==
    /\ Streaming(x) /\ ws[x].pc = "open"
    /\ \E err \in {"closed"} \cup TransportErrors :
          LET s == IF err = "closed" THEN Again(x, ws[x]) ELSE Raise(x, ws[x], err)
          IN  /\ ws' = [ws EXCEPT ![x] = s]
              /\ live' = Settle(live, x, s)
    /\ UNCHANGED <<bvars, pg, hist>>

\* asyncio.sleep is over
Wake(x) ==
    /\ Streaming(x) /\ ws[x].pc = "sleep"
    /\ ws' = [ws EXCEPT ![x] = Again(x, ws[x])]
    /\ live' = Settle(live, x, ws'[x])
    /\ UNCHANGED <<bvars, pg, hist>>

\* asyncio.run: main has raised, the tasks still pending are cancelled
CancelLive ==
    /\ live.pc = "raised" /\ LiveIdle
    /\ \/ \E x \in Venues : live.seed[x].pc = "fetch"
       \/ \E x \in Venues : live.pipe[x] = "consuming"
    /\ live' = [live EXCEPT
                  !.seed = [x \in Venues |->
                              IF live.seed[x].pc = "fetch"
                              THEN [live.seed[x] EXCEPT !.pc = "cancelled"]
                              ELSE live.seed[x]],
                  !.pipe = [x \in Venues |->
                              IF live.pipe[x] = "consuming" THEN "cancelled"
                              ELSE live.pipe[x]]]
    /\ UNCHANGED <<bvars, pg, hist, ws>>

Seed == \E x \in Venues : SeedFetch(x) \/ SeedFeed(x)
Live == \E x \in Venues : Connect(x) \/ Receive(x) \/ Drop(x) \/ Wake(x)

NextLive == Seed \/ StartStreams \/ Live \/ CancelLive

SpecLive == InitLive /\ [][NextLive]_vars

\* ------------------------------------- tests/smoke_binance.py, smoke_bybit.py
\* One generator and its consumer: `async for fp in
\* collector.stream_predicted()`, which stops after SMOKE_PRINTS prints.
\* `live` is the consumer and what an observer of the socket has seen:
\*   got  - the fundingRate and nextFundingTime most recently received in a
\*          ticker message (NoneRate, 0: none so far);
\*   conn - the same, counted from the last ws_connect;
\*   at   - the last step: the message received and the print yielded.

\* `if i == 5: break`
SMOKE_PRINTS == 5

\* the predicted rates a venue sends
SmokeRates == {Fin(1), Fin(2)}

NoFields == [rate |-> NoneRate, ftime |-> 0]
NoMessage == Message("", NoneRate, 0)

\* the fields of a ticker message, seen on the socket
Heard(f, m) ==
    IF m.kind # "data" THEN f
    ELSE [rate |-> IF m.rate # NoneRate THEN m.rate ELSE f.rate,
          ftime |-> IF m.ftime # 0 THEN m.ftime ELSE f.ftime]

At(op, m, fp) == [op |-> op, msg |-> m, fp |-> fp]

\* the consumer after a step of the generator: the loop ends with the
\* generator, the exception of the generator is the exception of main
Consumer(l, s) ==
    IF s.pc = "ended" THEN [l EXCEPT !.pc = "returned"]
    ELSE IF s.pc = "raised" THEN [l EXCEPT !.pc = "raised"]
    ELSE l

InitSmoke ==
    /\ emit_on_roll = TRUE
    /\ buffers = EmptyDict
    /\ last_roll = EmptyDict
    /\ call = [op |-> "init", exchange |-> "", fp |-> NoPrint, ret |-> RetNone,
               dropped |-> <<>>]
    /\ accepted = [x \in Venues |-> <<>>]
    /\ emitted = [x \in Venues |-> <<>>]
    /\ \E v \in Venues : \E now \in Nows :
          /\ live = [pc |-> "smoke", venue |-> v, now |-> now, i |-> 0,
                     got |-> NoFields, conn |-> NoFields,
                     at |-> At("start", NoMessage, NoPrint)]
          /\ ws = [x \in Venues |->
                     IF x = v THEN Again(x, Stream("idle")) ELSE Stream("idle")]
    /\ pg = Off /\ hist = Off

\* the consumer of venue x waits for its generator
Smoking(x) == live.pc = "smoke" /\ live.venue = x

\* ws_connect comes back
SmokeConnect(x) ==
    /\ Smoking(x) /\ ws[x].pc = "connect"
    /\ \E err \in {"none"} \cup TransportErrors :
          LET s == IF err = "none" THEN Connected(x, ws[x]) ELSE Raise(x, ws[x], err)
          IN  /\ ws' = [ws EXCEPT ![x] = s]
              /\ live' = Consumer([live EXCEPT
                                     !.conn = IF err = "none" THEN NoFields ELSE @,
                                     !.at = At("connect", NoMessage, NoPrint)], s)
    /\ UNCHANGED <<bvars, pg, hist>>

\* a message arrives; the consumer counts the print the generator yields
SmokeReceive(x) ==
    /\ Smoking(x) /\ ws[x].pc = "open"
    /\ \E m \in MessagesOf(x, live.now, SmokeRates) :
          LET o == OnMessage(x, ws[x], m, live.now)
              i == IF o.fp = NoPrint THEN live.i ELSE live.i + 1
          IN  /\ ws' = [ws EXCEPT ![x] = o.stream]
              /\ live' = Consumer([live EXCEPT
                                     !.i = i,
                                     !.pc = IF i = SMOKE_PRINTS THEN "break" ELSE @,
                                     !.got = Heard(@, m),
                                     !.conn = Heard(@, m),
                                     !.at = At("receive", m, o.fp)], o.stream)
    /\ UNCHANGED <<bvars, pg, hist>>

\* the connection is lost: the receive loop raises, or the socket closes and
\* the loop ends
SmokeDrop(x) ==
    /\ Smoking(x) /\ ws[x].pc = "open"
    /\ \E err \in {"closed"} \cup TransportErrors :
          LET s == IF err = "closed" THEN Again(x, ws[x]) ELSE Raise(x, ws[x], err)
          IN  /\ ws' = [ws EXCEPT ![x] = s]
              /\ live' = Consumer([live EXCEPT
                                     !.at = At("drop", NoMessage, NoPrint)], s)
    /\ UNCHANGED <<bvars, pg, hist>>

\* asyncio.sleep is over
SmokeWake(x) ==
    /\ Smoking(x) /\ ws[x].pc = "sleep"
    /\ LET s == Again(x, ws[x])
       IN  /\ ws' = [ws EXCEPT ![x] = s]
           /\ live' = Consumer([live EXCEPT
                                  !.at = At("wake", NoMessage, NoPrint)], s)
    /\ UNCHANGED <<bvars, pg, hist>>

NextSmoke ==
    \E x \in Venues :
        SmokeConnect(x) \/ SmokeReceive(x) \/ SmokeDrop(x) \/ SmokeWake(x)

SpecSmoke == InitSmoke /\ [][NextSmoke]_vars

\* ------------------------------------------------------------------ claims
\* the rate of a print is missing or NaN
Invalid(fp) == fp.predicted_rate.tag \in {"None", "NaN"}

StrictlyIncreasing(q) ==
    \A i \in 1..(Len(q) - 1) : q[i].funding_time < q[i + 1].funding_time

\* C1 (order invariant): the prints appended for a venue have strictly
\* increasing funding_time, and an update whose funding_time is <= the newest
\* buffered one leaves the buffers unchanged and returns None.
C1_Step ==
    call'.op = "update" =>
        LET fp == call'.fp
            buf == BufOf(buffers, fp.exchange)
        IN  /\ StrictlyIncreasing(accepted'[fp.exchange])
            /\ StrictlyIncreasing(BufOf(buffers', fp.exchange))
            /\ (Len(buf) > 0 /\ fp.funding_time <= buf[Len(buf)].funding_time)
                  => /\ buffers' = buffers
                     /\ accepted' = accepted
                     /\ call'.ret = RetNone
\* C1: every step of the builder satisfies C1_Step
C1_OrderInvariant == [][C1_Step]_vars

\* a print with a valid rate and a funding_time before the newest buffered one
\* was fed and dropped
C1_Witness ==
    /\ call.op = "update"
    /\ ~Invalid(call.fp)
    /\ Len(BufOf(buffers, call.exchange)) >= 2
    /\ call.fp.funding_time < Newest(call.exchange)
    /\ call.ret = RetNone

\* C2 (completeness): update returns a snapshot only when the venue's buffer
\* holds exactly 8 prints, all appended since the venue's last reset (the
\* last 8 of them); while the buffer holds fewer than 8 it returns None.
C2_Completeness ==
    call.op = "update" =>
        LET x == call.exchange
            buf == BufOf(buffers, x)
            n == Len(accepted[x])
        IN  /\ call.ret.kind = "DataFrame" =>
                  /\ Len(buf) = 8
                  /\ n >= 8
                  /\ \A i \in 1..8 : buf[i] = accepted[x][n - 8 + i]
                  /\ Len(call.ret.rows) = 8
            /\ Len(buf) < 8 => call.ret = RetNone

\* the 8th print appended since inception or reset returned a snapshot
C2_Witness ==
    /\ call.op = "update"
    /\ call.ret.kind = "DataFrame"
    /\ Len(accepted[call.exchange]) = 8

NoDup(q) == \A i, j \in 1..Len(q) : i # j => q[i] # q[j]

\* C3 (throttle, emit_on_roll = True): between two resets of a venue no two
\* snapshots returned for it have the same newest funding_time.
C3_ThrottleInvariant ==
    emit_on_roll => \A x \in Venues : NoDup(emitted[x])

\* a venue returned snapshots for two windows with the throttle on
C3_Witness ==
    /\ emit_on_roll
    /\ \E x \in Venues : Len(emitted[x]) >= 2

\* the rate is a finite float
IsFinite(r) == r.tag = "Fin"

AllFinite(buf) == \A i \in 1..Len(buf) : IsFinite(buf[i].predicted_rate)

\* the print passes the ordering guard of a buffer
InOrder(buf, fp) == Len(buf) = 0 \/ fp.funding_time > buf[Len(buf)].funding_time

\* C4 (emit_on_roll = False): every update with a finite rate that passes the
\* ordering guard and completes or overflows the buffer returns a snapshot.
C4_Step ==
    (/\ ~emit_on_roll
     /\ call'.op = "update"
     /\ IsFinite(call'.fp.predicted_rate)
     /\ InOrder(BufOf(buffers, call'.exchange), call'.fp)
     /\ Len(BufOf(buffers, call'.exchange)) >= 7
     /\ AllFinite(BufOf(buffers', call'.exchange)))
    => call'.ret.kind = "DataFrame"
\* C4: every step of the builder satisfies C4_Step
C4_EveryCompletingAcceptEmits == [][C4_Step]_vars

\* C5 (emit_on_roll = True): once 8 prints with increasing funding_time and
\* finite rates are held, the 8th update and every later one opening a new
\* window returns an 8-row snapshot whose newest row is that print; a print
\* repeating the newest buffered funding_time returns None.
C5_Step ==
    (emit_on_roll /\ call'.op = "update") =>
        LET fp == call'.fp
            buf == BufOf(buffers, fp.exchange)
        IN  /\ (/\ IsFinite(fp.predicted_rate)
                 /\ InOrder(buf, fp)
                 /\ Len(buf) >= 7
                 /\ AllFinite(BufOf(buffers', fp.exchange)))
                => /\ call'.ret.kind = "DataFrame"
                   /\ Len(call'.ret.rows) = 8
                   /\ call'.ret.rows[8].funding_time = fp.funding_time
                   /\ call'.ret.rows[8].raw_rate = fp.predicted_rate
            /\ (Len(buf) >= 8 /\ fp.funding_time = buf[Len(buf)].funding_time)
                => call'.ret = RetNone
\* C5: every step of the builder satisfies C5_Step
C5_Scenario == [][C5_Step]_vars

\* C6 (gap guard): an update whose rate is None or NaN returns None and
\* leaves every buffer and the last-emitted bookkeeping as they were.
C6_Step ==
    (call'.op = "update" /\ Invalid(call'.fp)) =>
        /\ call'.ret = RetNone
        /\ buffers' = buffers
        /\ last_roll' = last_roll
        /\ accepted' = accepted
\* C6: every step of the builder satisfies C6_Step
C6_GapGuard == [][C6_Step]_vars

\* a NaN print was fed to a venue whose buffer is full and which has emitted
C6_Witness ==
    /\ call.op = "update"
    /\ call.fp.predicted_rate = NaNRate
    /\ Len(BufOf(buffers, call.exchange)) = 8
    /\ Has(last_roll, call.exchange)
    /\ call.ret = RetNone

\* C7 (validity filter): an update whose rate is not finite changes nothing
\* and returns None, so every rate held in a buffer or returned as raw_rate
\* is finite.
C7_Step ==
    /\ (call'.op = "update" /\ ~IsFinite(call'.fp.predicted_rate)) =>
          /\ call'.ret = RetNone
          /\ buffers' = buffers
          /\ last_roll' = last_roll
    /\ \A x \in DOMAIN buffers' : AllFinite(buffers'[x])
    /\ \A i \in 1..Len(call'.ret.rows) : IsFinite(call'.ret.rows[i].raw_rate)
\* C7: every step of the builder satisfies C7_Step
C7_ValidityFilter == [][C7_Step]_vars

\* the venues a reset call names: one, or all of them
ResetOf(c) == IF c.exchange = "" THEN Venues ELSE {c.exchange}

\* C8 (reset): reset(venue) and reset() leave the venue with no buffer and no
\* last-emitted entry; an empty venue accepts its next valid print whatever
\* its funding_time; and a snapshot is returned for a venue only once 8
\* prints were appended since its last reset.
C8_Step ==
    /\ call'.op = "reset" =>
          \A x \in ResetOf(call') : ~Has(buffers', x) /\ ~Has(last_roll', x)
    /\ (call'.op = "update" /\ ~Has(buffers, call'.exchange) /\ ~Invalid(call'.fp)) =>
          /\ BufOf(buffers', call'.exchange) = <<call'.fp>>
          /\ call'.ret = RetNone
    /\ (call'.op = "update" /\ call'.ret.kind = "DataFrame") =>
          Len(accepted'[call'.exchange]) >= 8
\* C8: every step of the builder satisfies C8_Step
C8_Reset == [][C8_Step]_vars

\* reset("binance") has just dropped a full buffer, and a print for the
\* oldest window, older than everything dropped, is accepted next
C8_Witness ==
    /\ call.op = "reset"
    /\ call.exchange = "binance"
    /\ Len(call.dropped) = 8
    /\ call.dropped[8].funding_time > 1
    /\ ~Has(buffers, "binance")
    /\ ENABLED (/\ update(Realised("binance", 1, Fin(1)))
                /\ BufOf(buffers', "binance") = <<Realised("binance", 1, Fin(1))>>)

\* C9 (bucket layout): a returned snapshot has 8 rows, row i (from 0) with
\* bucket_start_h = 8 * i and bucket_end_h = 8 * (i + 1): increasing,
\* non-overlapping and contiguous over 0..64 h.
C9_BucketLayout ==
    call.ret.kind = "DataFrame" =>
        LET rows == call.ret.rows
        IN  /\ Len(rows) = 8
            /\ \A i \in 0..7 :
                  /\ rows[i + 1].bucket_start_h = 8 * i
                  /\ rows[i + 1].bucket_end_h = 8 * (i + 1)
            /\ rows[1].bucket_start_h = 0
            /\ rows[8].bucket_end_h = 64
            /\ \A i \in 1..7 :
                  /\ rows[i].bucket_end_h = rows[i + 1].bucket_start_h
                  /\ rows[i].bucket_start_h < rows[i + 1].bucket_start_h

\* a snapshot was returned from a buffer that had overflowed
C9_Witness ==
    /\ call.op = "update"
    /\ call.ret.kind = "DataFrame"
    /\ Len(accepted[call.exchange]) > 8

\* C10 (bounded buffer): each venue's buffer is the last min(n, 8) of the n
\* prints appended since its last reset, in that order; an append to a full
\* buffer drops its oldest print; a buffer of size 8 leaves size 8 only by a
\* reset of that venue.
C10_Step ==
    /\ \A x \in Venues :
          /\ BufOf(buffers', x) = LastN(accepted'[x], Min(Len(accepted'[x]), 8))
          /\ Len(BufOf(buffers', x)) <= 8
          /\ (Len(BufOf(buffers, x)) = 8 /\ Len(BufOf(buffers', x)) # 8) =>
                (call'.op = "reset" /\ x \in ResetOf(call'))
    /\ (call'.op = "update" /\ accepted' # accepted
          /\ Len(BufOf(buffers, call'.exchange)) = 8) =>
          /\ call'.dropped = <<Head(BufOf(buffers, call'.exchange))>>
          /\ BufOf(buffers', call'.exchange) =
                Append(Tail(BufOf(buffers, call'.exchange)), call'.fp)
\* C10: every step of the builder satisfies C10_Step
C10_BoundedBuffer == [][C10_Step]_vars

\* ten prints were appended for a venue: its buffer overflowed twice
C10_Witness ==
    \E x \in Venues :
        /\ Len(accepted[x]) >= 10
        /\ Len(BufOf(buffers, x)) = 8
        /\ call.op = "update"
        /\ Len(call.dropped) = 1

\* ----------------------------------------------- claims: backfill_realised
\* C14 (a failed request fails the call): backfill_realised never returns a
\* list, empty or partial, when one of its page requests failed.
C14_FailedRequestRaises == pg.pc = "returned" => ~pg.failed

\* the page the venue serves for the window of the next request
Served(p) ==
    IF p.exchange = "binance"
    THEN BinanceServe(p.records, p.startTime, p.endTime)
    ELSE BybitServe(p.records, p.startTime, p.endTime)

\* the last record of the page reaches the boundary of the window: end for
\* Binance (ascending), start for Bybit (descending)
AtBoundary(p, page) ==
    IF p.exchange = "binance"
    THEN page[Len(page)] >= p.endTime
    ELSE page[Len(page)] <= p.startTime

C15_Step ==
    pg' # pg =>
        LET page == Served(pg)
            stop == page = <<>> \/ Len(page) < PageLimit \/ AtBoundary(pg, page)
        IN  /\ ~pg'.failed => (pg'.pc = "returned" <=> stop)
            /\ pg'.pc = "request" =>
                  /\ Len(page) = PageLimit
                  /\ pg.startTime <= pg'.startTime /\ pg'.endTime <= pg.endTime
                  /\ pg'.endTime - pg'.startTime < pg.endTime - pg.startTime

\* the number of requests is bounded by the number of records in [start, end]
C15_Bound ==
    Len(pg.windows) <=
        (Cardinality(InWindow(pg.records, pg.start, pg.end)) \div PageLimit) + 1

\* C15 (pagination terminates): the loop stops as soon as a page is empty,
\* shorter than the page limit or reaches the boundary of the window; every
\* other page strictly shrinks the window; and every call comes to an end.
C15_Terminates ==
    /\ [][C15_Step]_vars
    /\ [](C15_Bound)
    /\ <>(pg.pc # "request")

\* a call that took three full pages
C15_Witness == pg.pc = "returned" /\ ~pg.failed /\ Len(pg.windows) >= 3

NonDecreasing(q) ==
    \A i \in 1..(Len(q) - 1) : q[i].funding_time <= q[i + 1].funding_time

StrictlyDecreasing(q) ==
    \A i \in 1..(Len(q) - 1) : q[i].funding_time > q[i + 1].funding_time

\* C16 as stated: the list returned by backfill_realised is sorted ascending
\* by funding_time, for every venue.
C16_SortedAscending == pg.pc = "returned" => NonDecreasing(pg.prints)

\* C16 (order of the result): the list returned by backfill_realised is
\* finite and strictly ascending by funding_time for Binance and strictly
\* descending for Bybit.
C16_VenueOrder ==
    pg.pc = "returned" =>
        /\ Len(pg.prints) <= Cardinality(pg.records)
        /\ pg.exchange = "binance" => StrictlyIncreasing(pg.prints)
        /\ pg.exchange = "bybit" => StrictlyDecreasing(pg.prints)

\* Bybit returned a list that took more than one page
C16_Witness ==
    /\ pg.pc = "returned" /\ pg.exchange = "bybit"
    /\ Len(pg.windows) >= 2 /\ Len(pg.prints) >= 3

FundingTimes(q) == {q[i].funding_time : i \in 1..Len(q)}

\* C17 (no re-fetch, exactly once): the window of the next request holds no
\* record already returned and every record of [start, end] not yet
\* returned, and the list returned holds every record of the venue with
\* funding time in [start, end] once.
C17_ExactlyOnce ==
    /\ pg.pc = "request" =>
          /\ FundingTimes(pg.prints) \cap InWindow(Ms, pg.startTime, pg.endTime) = {}
          /\ InWindow(pg.records, pg.start, pg.end) \ FundingTimes(pg.prints)
                \subseteq InWindow(Ms, pg.startTime, pg.endTime)
    /\ pg.pc = "returned" =>
          /\ NoDup(pg.prints)
          /\ FundingTimes(pg.prints) = InWindow(pg.records, pg.start, pg.end)

\* what holds of the calls none of whose requests failed
ExactlyOnceUnlessFailed == pg.failed \/ C17_ExactlyOnce

\* ------------------------------------------------ claims: historical ingest
\* the task of venue x has ended by an exception
Aborted(x) == hist.task[x].pc = "raised" /\ hist.pc = "raised"

\* chunk i of venue x is the last one fetched, and nothing of it or of a later
\* chunk was fed
LastChunk(x, i) ==
    LET t == hist.task[x]
    IN  /\ i = Len(t.chunks)
        /\ t.pending = <<>>
        /\ \A k \in 1..Len(t.fed) : t.fed[k].funding_time < t.chunks[i].cursor

\* C13 (a failed chunk aborts the venue): when the fetch of a chunk fails, the
\* venue's ingestion ends at that chunk with the failure raised to main: no
\* later chunk is fetched, no further event is fed, the chunk is not skipped.
C13_FailedChunkAborts ==
    \A x \in Venues : \A i \in 1..Len(hist.task[x].chunks) :
        hist.task[x].chunks[i].failed => Aborted(x) /\ LastChunk(x, i)

\* what holds of the chunks whose backfill_realised raised
AbortsWhenRaised ==
    \A x \in Venues : \A i \in 1..Len(hist.task[x].chunks) :
        hist.task[x].chunks[i].raised => Aborted(x) /\ LastChunk(x, i)

\* the milliseconds of a chunk
Window(c) == {t \in Times : c.cursor <= t /\ t <= c.chunk_end}

C18_Windows ==
    \A x \in Venues :
        LET t == hist.task[x]
            c == t.chunks
        IN  /\ Len(c) > 0 => c[1].cursor = hist.start
            /\ \A i \in 1..Len(c) : c[i].cursor < hist.end /\ c[i].chunk_end <= hist.end
            /\ Len(c) > 0 => Len(c) <= hist.end - hist.start
            /\ \A i \in 1..(Len(c) - 1) : c[i + 1].cursor = c[i].chunk_end + 1
            /\ \A i, j \in 1..Len(c) : i # j => Window(c[i]) \cap Window(c[j]) = {}
            /\ t.pc = "done" =>
                  {m \in Times : hist.start <= m /\ m < hist.end}
                      \subseteq UNION {Window(c[i]) : i \in 1..Len(c)}

C18_Step ==
    \A x \in Venues :
        LET t == hist.task[x]
            u == hist'.task[x]
        IN  /\ u.cursor >= t.cursor
            /\ Len(u.chunks) <= Len(t.chunks) + 1
            \* a chunk is fetched only after the one before it was fed
            /\ Len(u.chunks) > Len(t.chunks) =>
                  /\ t.pending = <<>>
                  /\ u.chunks[Len(u.chunks)].cursor = t.cursor
            \* the cursor moves when a chunk ends, and then past that chunk
            /\ u.cursor > t.cursor => u.pending = <<>> /\ u.cursor > u.chunk_end

\* C18 (chunk walk): the chunks of a venue are fetched one after another in
\* increasing time order, each starting 1 ms after the end of the one before;
\* their windows do not overlap and cover every millisecond of [start, end);
\* the cursor grows with every chunk and a chunk is fetched only while the
\* cursor is before end, so that the walk ends after at most end - start
\* chunks.
C18_ChunkWalk ==
    /\ [](C18_Windows)
    /\ [][C18_Step]_vars

\* a venue walked three chunks or more to the end
C18_Witness ==
    \E x \in Venues :
        /\ hist.task[x].pc = "done" /\ Len(hist.task[x].chunks) >= 3
        /\ \A i \in 1..Len(hist.task[x].chunks) : ~hist.task[x].chunks[i].failed

\* --------------------------------------------------- claims: live pipeline
\* C11 (a live feed is never given up): whatever failures and closures a
\* venue's subscription suffers, its stream_predicted goes on to sleep and
\* connect again; it never comes to an end.
C11_NeverGivesUp == \A x \in Venues : ws[x].pc # "ended"

Other(x) == CHOOSE y \in Venues : y # x

\* the stream of venue x has lost its connection in this step: while
\* connecting or receiving it went to sleep, to a new connection or to its end
LostConnection(x) ==
    /\ ws[x].pc \in {"connect", "open"}
    /\ \/ ws'[x].pc \in {"sleep", "ended"}
       \/ ws[x].pc = "open" /\ ws'[x].pc = "connect"

C12_Step ==
    \A x \in Venues :
        LostConnection(x) =>
            /\ live'.pc = live.pc
            /\ live'.pipe[x] # "raised"
            /\ live'.pipe[Other(x)] = live.pipe[Other(x)]
            /\ ws'[Other(x)] = ws[Other(x)]
            /\ bvars' = bvars

C12_NoEscape ==
    /\ \A x \in Venues : ws[x].pc = "raised" => ws[x].error \notin TransportErrors
    /\ live.error.from = "stream_predicted" => live.error.err \notin TransportErrors

C19_SeededReady ==
    \A x \in Venues :
        LET t == live.seed[x]
        IN  /\ (live.pc = "seeding" /\ t.pc = "done" /\ ~t.failed /\ t.got >= B) =>
                  /\ Len(t.fed) = B
                  /\ StrictlyIncreasing(t.fed)
                  /\ Len(BufOf(buffers, x)) = B
            /\ (live.pc = "streams" /\ t.snapshot.kind = "DataFrame") =>
                  Cardinality({i \in 1..Len(live.sink) :
                                  /\ live.sink[i].by = "seed"
                                  /\ \E j \in 1..Len(live.sink[i].rows) :
                                        live.sink[i].rows[j][1] = x}) = 1

\* what the seeding does: 7 events, not 8, and never a snapshot
SeededSeven ==
    \A x \in Venues :
        LET t == live.seed[x]
        IN  (live.pc = "seeding" /\ t.pc = "done" /\ ~t.failed /\ t.got >= SEED_KEEP) =>
                /\ Len(t.fed) = SEED_KEEP
                /\ Len(BufOf(buffers, x)) = SEED_KEEP
                /\ t.snapshot.kind = "None"

C20_Sequenced ==
    \A x \in Venues :
        \* the stream of x has started
        (ws[x].pc # "idle" \/ live.pipe[x] # "idle") =>
            \A y \in Venues : live.seed[y].pc = "done"

C20_Step ==
    \* a print fed by a _pipe
    (call' # call /\ call'.op = "update" /\ live'.seed = live.seed) =>
        /\ \A y \in Venues : live.seed[y].pc = "done"
        /\ live.pipe[call'.exchange] = "consuming"

\* C20 (seed fully, then subscribe): no stream is started and no live print
\* is fed before the seeding of every venue is done, so that a seeding and a
\* stream never feed the same buffer.
C20_SingleWriter == [](C20_Sequenced) /\ [][C20_Step]_vars

\* a live print was appended to a seeded buffer
C20_Witness ==
    \E x \in Venues :
        /\ live.pc = "streams" /\ Len(live.seed[x].fed) = SEED_KEEP
        /\ Len(accepted[x]) > Len(live.seed[x].fed)

\* ------------------------------------------------ claims: the shared builder
\* what the builder holds for venue y is the same before and after the step
Untouched(y) ==
    /\ Has(buffers', y) = Has(buffers, y)
    /\ BufOf(buffers', y) = BufOf(buffers, y)
    /\ Has(last_roll', y) = Has(last_roll, y)
    /\ Has(last_roll, y) => last_roll'[y] = last_roll[y]
    /\ accepted'[y] = accepted[y]
    /\ emitted'[y] = emitted[y]

\* what the builder holds for venue x, as a state of the venue alone
Held(x) ==
    [buf |-> BufOf(buffers, x),
     rolled |-> Has(last_roll, x),
     roll |-> IF Has(last_roll, x) THEN last_roll[x] ELSE 0,
     ret |-> RetNone]

\* the builder holds for each venue what a builder fed the venue's prints
\* alone holds
C21_Alone ==
    \A x \in Venues :
        [FedAlone(accepted[x], emit_on_roll) EXCEPT !.ret = RetNone] = Held(x)

C21_Step ==
    /\ (call'.op = "update" \/ (call'.op = "reset" /\ call'.exchange # "")) =>
          \A y \in Venues \ {call'.exchange} : Untouched(y)
    /\ call'.op = "update" =>
          \* the call returns what it returns on the venue alone
          call'.ret = UpdateAlone(Held(call'.exchange), call'.fp, emit_on_roll).ret

\* C21 (venue independence): update and reset(venue) of one venue leave what
\* the builder holds for the other venue unchanged; through every interleaving
\* the builder holds for a venue what it would had the venue's prints been
\* fed alone, and every update returns the snapshot it would return then.
C21_Independent == [](C21_Alone) /\ [][C21_Step]_vars

\* a snapshot is returned for one venue while the other one is half filled
C21_Witness ==
    /\ call.op = "update" /\ call.ret.kind = "DataFrame"
    /\ \E y \in Venues \ {call.exchange} :
          Len(BufOf(buffers, y)) > 0 /\ Len(BufOf(buffers, y)) < B

\* ------------------------------------------------- claims: the live streams
\* the Bybit generator has just handled a message / has just yielded
BybitReceived == live.venue = "bybit" /\ live.at.op = "receive"
BybitYielded == BybitReceived /\ live.at.fp # NoPrint

\* C22 (Bybit partial-field merge): a print is yielded only when both
\* fundingRate and nextFundingTime have been received; it carries the rate and
\* the funding time most recently received, so a field absent from the
\* message comes from the cache, however long ago it was received; and the
\* cache of an open connection is what was received on it.
C22_Merge ==
    /\ BybitYielded =>
          /\ live.got.rate # NoneRate /\ live.got.ftime # 0
          /\ live.at.fp.predicted_rate = live.got.rate
          /\ live.at.fp.funding_time = live.got.ftime
    /\ BybitReceived /\ live.at.msg.kind = "data" /\ ws["bybit"].pc = "open" =>
          /\ ws["bybit"].latest_rate = live.conn.rate
          /\ ws["bybit"].latest_ftime = live.conn.ftime
          /\ live.conn.rate # NoneRate /\ live.conn.ftime # 0 => live.at.fp # NoPrint

\* a message without fundingRate yields a print: its rate is the cached one,
\* which has replaced an earlier one or has been kept over several messages
C22_Witness ==
    /\ BybitYielded
    /\ live.at.msg.rate = NoneRate /\ live.at.msg.ftime # 0
    /\ live.at.fp.predicted_rate = Fin(2)
    /\ live.i >= 3

\* C23 (protocol errors in the live streams), as claimed: a message whose
\* payload does not have the expected shape is skipped and the stream goes
\* on: the connection stays open and the consumer is still served.
C23_Skipped ==
    live.at.op = "receive" /\ live.at.msg.kind = "bad" =>
        /\ ws[live.venue].pc = "open"
        /\ live.pc = "smoke"

\* C29 (the Bybit cache is per connection): a new connection starts with an
\* empty cache; a print is yielded only when both fields have been received
\* on the connection it is yielded on, and carries those.
C29_PerConnection ==
    /\ live.venue = "bybit" /\ live.at.op = "connect" /\ ws["bybit"].pc = "open" =>
          ws["bybit"].latest_rate = NoneRate /\ ws["bybit"].latest_ftime = 0
    /\ BybitYielded =>
          /\ live.conn.rate # NoneRate /\ live.conn.ftime # 0
          /\ live.at.fp.predicted_rate = live.conn.rate
          /\ live.at.fp.funding_time = live.conn.ftime

\* after a reconnect a message brings one field, the other was received on
\* the connection before: nothing is yielded
C29_Witness ==
    /\ BybitReceived /\ live.at.msg.kind = "data" /\ live.at.fp = NoPrint
    /\ live.i > 0
    /\ live.conn.rate = NoneRate /\ live.got.rate # NoneRate
    /\ live.conn.ftime # 0


\* ----------------------------------------- claims: the buffer and its frames
\* C24 (freshness), as claimed: after an update with a finite rate for the
\* window that is the newest of its venue's buffer, the entry of that window
\* holds the rate of that update.
C24_Fresh ==
    (/\ call.op = "update"
     /\ IsFinite(call.fp.predicted_rate)
     /\ Len(BufOf(buffers, call.exchange)) > 0
     /\ Newest(call.exchange) = call.fp.funding_time) =>
        BufOf(buffers, call.exchange)[Len(BufOf(buffers, call.exchange))].predicted_rate
            = call.fp.predicted_rate


\* the snapshot the last call returned, and the buffer it was built from
Returned == call.op = "update" /\ call.ret.kind = "DataFrame"
Frame == call.ret.rows
Source == BufOf(buffers, call.exchange)

C26_OneTimestamp ==
    Returned => \A i \in 1..Len(Frame) : Frame[i].ts_snap = call.fp.ts_snap


\* ------------------------------------------- claims: the historical replay
\* the prints of q the gap guard lets through
Valid(q) == SelectSeq(q, LAMBDA fp : ~Invalid(fp))

\* C27 (historical ingestion drops nothing in order): the prints a venue's
\* task has fed to update, over all its chunks, have strictly increasing
\* funding_time, and every one of them with a valid rate was appended to the
\* venue's buffer: the ordering guard rejected none.
C27_NothingDropped ==
    \A x \in Venues :
        /\ StrictlyIncreasing(hist.task[x].fed)
        /\ accepted[x] = Valid(hist.task[x].fed)
        /\ (call.op = "update" /\ call.exchange = x /\ ~Invalid(call.fp)) =>
              /\ Len(BufOf(buffers, x)) > 0
              /\ BufOf(buffers, x)[Len(BufOf(buffers, x))] = call.fp

\* Bybit, whose pages come newest first: three chunks and more prints than
\* chunks have been fed
C27_Witness ==
    /\ hist.task["bybit"].pc = "done"
    /\ Len(hist.task["bybit"].chunks) >= 3
    /\ Len(hist.task["bybit"].fed) > PageLimit + Len(hist.task["bybit"].chunks)
    /\ Len(accepted["bybit"]) = Len(hist.task["bybit"].fed)


\* ------------------------------------------------------- claims: the throttle
\* the builder with the other setting of emit_on_roll, after the same calls
\* for venue x (of the updates only the appended ones change a builder)
Twin(x) == FedAlone(accepted[x], ~emit_on_roll)

\* what the twin holds for venue x, read off this builder: the same buffer;
\* its throttle, when it has one, remembers the window of the newest print
\* once the buffer has been complete
TwinHeld(x) ==
    LET rolled == ~emit_on_roll /\ Len(accepted[x]) >= B
    IN  [buf |-> BufOf(buffers, x), rolled |-> rolled,
         roll |-> IF rolled THEN Newest(x) ELSE 0, ret |-> RetNone]

C28_Twin == \A x \in Venues : [Twin(x) EXCEPT !.ret = RetNone] = TwinHeld(x)

C28_Step ==
    call'.op = "update" =>
        /\ call'.ret = UpdateAlone(TwinHeld(call'.exchange), call'.fp, ~emit_on_roll).ret
        /\ call'.ret.kind = "None" /\ accepted' # accepted =>
              Incomplete(BufOf(buffers', call'.exchange))

====
